---------------------------- MODULE Spec2Model ----------------------------
(***************************************************************************)
(* TK Job Digest.  The repository holds two revisions of one script:       *)
(*   "pro"   : src/fetch_jobs.py                   (collect_jobs)          *)
(*   "daily" : src/daily-job-fetcher/fetch_jobs.py (merge_and_filter)      *)
(* Text is modelled by TLA+ strings, inspected character by character      *)
(* with Len, SubSeq and \o.  An optional Python value (None or a string)   *)
(* is a sequence of length 0 or 1: None == <<>>, Str(s) == <<s>>.          *)
(***************************************************************************)
EXTENDS Integers, Sequences, FiniteSets, TLC

VARIABLES
    prog,       \* which revision runs: "pro" or "daily"
    pc,         \* position of main() (or "call"/"ret" for a single function call)
    fn,         \* the function a single-call specification applies
    args,       \* its arguments
    ret,        \* its result
    now_day,    \* ordinal of the day the run happens on
    budget,     \* cards the sites may still serve in this run
    bulk,       \* size of the long page the first site may serve
    all_lists,  \* what the adapters called so far returned, in call order
    jobs,       \* the aggregation step's result
    html_body,  \* the rich payload
    text_body,  \* the plain payload
    sinks,      \* per sink: "idle" or how its call ended
    reported    \* the count main() printed, None before

vars == <<prog, pc, fn, args, ret, now_day, budget, bulk, all_lists, jobs, html_body, text_body, sinks, reported>>
run == <<now_day, budget, bulk, all_lists, jobs, html_body, text_body, sinks, reported>>

(***************************************************************************)
(* Python values and string primitives                                     *)
(***************************************************************************)
None == <<>>
Str(s) == <<s>>
\* Python's `x or ""` for an optional string
OrEmpty(x) == IF x = None THEN "" ELSE x[1]

UpperChars == "ABCDEFGHIJKLMNOPQRSTUVWXYZ"
LowerChars == "abcdefghijklmnopqrstuvwxyz"
DigitChars == "0123456789"
\* the characters the model's texts use, in ascending code-point order
AsciiOrder == "\t\n !+,-./0123456789:?ABCDEFGHIJKLMNOPQRSTUVWXYZ_abcdefghijklmnopqrstuvwxyz"

Char(s, i) == SubSeq(s, i, i)

\* Python's s[a-1:b]: the characters at positions a..b that exist
Slice(s, a, b) == IF b > Len(s) THEN SubSeq(s, a, Len(s)) ELSE SubSeq(s, a, b)

\* 1-based position of the one-character string c in tab, 0 when absent
IndexOf(c, tab) ==
    IF \E i \in 1..Len(tab) : Char(tab, i) = c
    THEN CHOOSE i \in 1..Len(tab) : Char(tab, i) = c
    ELSE 0

CharsOf(tab) == {Char(tab, i) : i \in 1..Len(tab)}
UpperSet == CharsOf(UpperChars)
LowerSet == CharsOf(LowerChars)
DigitSet == CharsOf(DigitChars)
\* code-point rank of each character of AsciiOrder
OrdTable == [c \in CharsOf(AsciiOrder) |-> IndexOf(c, AsciiOrder)]
LowerTable == [c \in UpperSet |-> Char(LowerChars, IndexOf(c, UpperChars))]
DigitTable == [c \in DigitSet |-> IndexOf(c, DigitChars) - 1]

Ord(c) == IF c \in DOMAIN OrdTable THEN OrdTable[c] ELSE 0

IsDigit(c) == c \in DigitSet
IsSpace(c) == c \in {" ", "\t", "\n"}
\* regex \w
IsWordChar(c) == c \in UpperSet \/ c \in LowerSet \/ c \in DigitSet \/ c = "_"

\* str.lower() of one character
LowerChar(c) == IF c \in UpperSet THEN LowerTable[c] ELSE c

RECURSIVE lower(_)
\* str.lower()
lower(s) == IF Len(s) = 0 THEN "" ELSE LowerChar(Char(s, 1)) \o lower(SubSeq(s, 2, Len(s)))

\* Python's `k in s` for strings
Contains(k, s) == \E i \in 1..(Len(s) - Len(k) + 1) : SubSeq(s, i, i + Len(k) - 1) = k

\* str.startswith
StartsWith(s, p) == Len(s) >= Len(p) /\ SubSeq(s, 1, Len(p)) = p

\* Python's str < str: lexicographic by code point
RECURSIVE StrLess(_, _)
StrLess(a, b) ==
    IF Len(b) = 0 THEN FALSE
    ELSE IF Len(a) = 0 THEN TRUE
    ELSE IF Char(a, 1) = Char(b, 1) THEN StrLess(SubSeq(a, 2, Len(a)), SubSeq(b, 2, Len(b)))
    ELSE Ord(Char(a, 1)) < Ord(Char(b, 1))

RECURSIVE ParseInt(_)
\* int() of a string of decimal digits
ParseInt(s) ==
    IF Len(s) = 0 THEN 0
    ELSE 10 * ParseInt(SubSeq(s, 1, Len(s) - 1)) + DigitTable[Char(s, Len(s))]

RECURSIVE ToStr(_)
\* str() of a natural number
ToStr(n) == IF n < 10 THEN Char(DigitChars, n + 1) ELSE ToStr(n \div 10) \o Char(DigitChars, (n % 10) + 1)

RECURSIVE StripLeft(_)
StripLeft(s) == IF Len(s) > 0 /\ IsSpace(Char(s, 1)) THEN StripLeft(SubSeq(s, 2, Len(s))) ELSE s
RECURSIVE StripRight(_)
StripRight(s) == IF Len(s) > 0 /\ IsSpace(Char(s, Len(s))) THEN StripRight(SubSeq(s, 1, Len(s) - 1)) ELSE s

RECURSIVE CollapseSpace(_)
\* re.sub(r"\s+", " ", s)
CollapseSpace(s) ==
    IF Len(s) = 0 THEN ""
    ELSE IF IsSpace(Char(s, 1)) THEN " " \o CollapseSpace(StripLeft(s))
    ELSE Char(s, 1) \o CollapseSpace(SubSeq(s, 2, Len(s)))

\* clean(s): collapse whitespace runs to one space, strip; None becomes ""
clean(s) == StripRight(StripLeft(CollapseSpace(OrEmpty(s))))
\* clean_space(s) of the daily revision: the same function
clean_space(s) == StripRight(StripLeft(CollapseSpace(OrEmpty(s))))

(***************************************************************************)
(* Freshness: recency_pass (pro) and is_recent (daily)                     *)
(***************************************************************************)
DAYS_WINDOW == 7
DAYS_WINDOW_daily == 7

\* end (inclusive) of the maximal digit run starting at position i
RECURSIVE DigitRunEnd(_, _)
DigitRunEnd(s, i) == IF i < Len(s) /\ IsDigit(Char(s, i + 1)) THEN DigitRunEnd(s, i + 1) ELSE i
RECURSIVE SpaceRunEnd(_, _)
SpaceRunEnd(s, i) == IF i < Len(s) /\ IsSpace(Char(s, i + 1)) THEN SpaceRunEnd(s, i + 1) ELSE i

\* re.search(r"(\d+)\s+<unit>", s) succeeds starting at position i: the digits are
\* the maximal run from i (a shorter run would be followed by a digit, not by \s)
UnitMatchAt(s, i, unit) ==
    /\ IsDigit(Char(s, i))
    /\ LET e == DigitRunEnd(s, i)
           w == SpaceRunEnd(s, e)
       IN  /\ w > e
           /\ Slice(s, w + 1, w + Len(unit)) = unit

\* group(1) of the leftmost match of (\d+)\s+<unit>, or None
UnitSearch(s, unit) ==
    LET hits == {i \in 1..Len(s) : UnitMatchAt(s, i, unit)}
    IN  IF hits = {} THEN None
        ELSE LET i == CHOOSE h \in hits : \A g \in hits : h <= g
             IN  Str(SubSeq(s, i, DigitRunEnd(s, i)))

IsLeap(y) == y % 4 = 0 /\ (y % 100 # 0 \/ y % 400 = 0)
DaysInMonth(y, m) ==
    IF m = 2 THEN (IF IsLeap(y) THEN 29 ELSE 28)
    ELSE IF m \in {4, 6, 9, 11} THEN 30 ELSE 31
RECURSIVE DaysBeforeMonth(_, _)
DaysBeforeMonth(y, m) == IF m = 1 THEN 0 ELSE DaysBeforeMonth(y, m - 1) + DaysInMonth(y, m - 1)
\* proleptic Gregorian ordinal of a date (datetime.toordinal)
Ordinal(y, m, d) ==
    (y - 1) * 365 + ((y - 1) \div 4) - ((y - 1) \div 100) + ((y - 1) \div 400)
        + DaysBeforeMonth(y, m) + d

AllDigits(s) == \A i \in 1..Len(s) : IsDigit(Char(s, i))

\* datetime.fromisoformat(p) for the date-only form YYYY-MM-DD: the ordinal of the
\* date, or a raised ValueError.  p is the first ten characters of the text.
fromisoformat(p) ==
    IF /\ Len(p) = 10
       /\ AllDigits(SubSeq(p, 1, 4)) /\ Char(p, 5) = "-"
       /\ AllDigits(SubSeq(p, 6, 7)) /\ Char(p, 8) = "-"
       /\ AllDigits(SubSeq(p, 9, 10))
    THEN LET y == ParseInt(SubSeq(p, 1, 4))
             m == ParseInt(SubSeq(p, 6, 7))
             d == ParseInt(SubSeq(p, 9, 10))
         IN  IF y >= 1 /\ m \in 1..12 /\ d >= 1 /\ d <= DaysInMonth(y, m)
             THEN [raised |-> FALSE, ordinal |-> Ordinal(y, m, d)]
             ELSE [raised |-> TRUE, ordinal |-> 0]
    ELSE [raised |-> TRUE, ordinal |-> 0]

FreshWords == {"today", "just", "hour"}

\* variant: the except branch rejects instead of keeping
recency_pass_reject_unknown(date_text, today) ==
    LET s == lower(OrEmpty(date_text))
        m == UnitSearch(s, "day")
        dt == fromisoformat(Slice(s, 1, 10))
    IN  IF \E k \in FreshWords : Contains(k, s) THEN TRUE
        ELSE IF m # None THEN ParseInt(m[1]) <= DAYS_WINDOW
        ELSE IF dt.raised THEN FALSE
        ELSE today - dt.ordinal <= DAYS_WINDOW

\* recency_pass(date_text); today is the ordinal of datetime.utcnow()'s date
recency_pass(date_text, today) ==
    LET s == lower(OrEmpty(date_text))
        m == UnitSearch(s, "day")
        dt == fromisoformat(Slice(s, 1, 10))
    IN  IF \E k \in FreshWords : Contains(k, s) THEN TRUE
        ELSE IF m # None THEN ParseInt(m[1]) <= DAYS_WINDOW
        ELSE IF dt.raised THEN TRUE
        ELSE today - dt.ordinal <= DAYS_WINDOW

\* is_recent(date_str); the slice date_str[:10] of None raises TypeError, which the
\* same except clause catches
\* variant: the window is strict
is_recent_strict_window(date_str, today) ==
    LET s == lower(OrEmpty(date_str))
        m == UnitSearch(s, "day")
        h == UnitSearch(s, "hour")
        dt == IF date_str = None THEN [raised |-> TRUE, ordinal |-> 0]
              ELSE fromisoformat(Slice(date_str[1], 1, 10))
    IN  IF \E k \in FreshWords : Contains(k, s) THEN TRUE
        ELSE IF m # None THEN ParseInt(m[1]) < DAYS_WINDOW_daily
        ELSE IF h # None THEN TRUE
        ELSE IF dt.raised THEN TRUE
        ELSE today - dt.ordinal <= DAYS_WINDOW_daily

is_recent(date_str, today) ==
    LET s == lower(OrEmpty(date_str))
        m == UnitSearch(s, "day")
        h == UnitSearch(s, "hour")
        dt == IF date_str = None THEN [raised |-> TRUE, ordinal |-> 0]
              ELSE fromisoformat(Slice(date_str[1], 1, 10))
    IN  IF \E k \in FreshWords : Contains(k, s) THEN TRUE
        ELSE IF m # None THEN ParseInt(m[1]) <= DAYS_WINDOW_daily
        ELSE IF h # None THEN TRUE
        ELSE IF dt.raised THEN TRUE
        ELSE today - dt.ordinal <= DAYS_WINDOW_daily

(***************************************************************************)
(* Role classification: role_from_title (pro), infer_role_type (daily)     *)
(***************************************************************************)
\* variant: the analyst test runs before the intern test
role_from_title_analyst_first(title) ==
    LET t == lower(title)
    IN  IF Contains("graduate", t) /\ Contains("trainee", t) THEN "Graduate Trainee"
        ELSE IF Contains("analyst", t) THEN "Data Analyst"
        ELSE IF Contains("intern", t) THEN "Intern"
        ELSE IF Contains("science", t) THEN "Data Science"
        ELSE "Other"

role_from_title(title) ==
    LET t == lower(title)
    IN  IF Contains("graduate", t) /\ Contains("trainee", t) THEN "Graduate Trainee"
        ELSE IF Contains("intern", t) THEN "Intern"
        ELSE IF Contains("science", t) THEN "Data Science"
        ELSE IF Contains("analyst", t) THEN "Data Analyst"
        ELSE "Other"

infer_role_type(title) ==
    LET t == lower(title)
    IN  IF Contains("graduate", t) /\ Contains("trainee", t) THEN "Graduate Trainee"
        ELSE IF Contains("intern", t) \/ Contains("internship", t) THEN "Intern"
        ELSE IF Contains("analyst", t) THEN "Data Analyst"
        ELSE "Other"

(***************************************************************************)
(* URLs: normalize_url and the part of urllib's urljoin it relies on       *)
(***************************************************************************)
SetMin(S) == CHOOSE x \in S : \A y \in S : x <= y
SetMax(S) == CHOOSE x \in S : \A y \in S : x >= y

\* position of the first occurrence of k in s at or after position from, 0 when none
Find(s, k, from) ==
    LET hits == {i \in from..(Len(s) - Len(k) + 1) : SubSeq(s, i, i + Len(k) - 1) = k}
    IN  IF hits = {} THEN 0 ELSE SetMin(hits)

\* position of the last occurrence of k in s, 0 when none
FindLast(s, k) ==
    LET hits == {i \in 1..(Len(s) - Len(k) + 1) : SubSeq(s, i, i + Len(k) - 1) = k}
    IN  IF hits = {} THEN 0 ELSE SetMax(hits)

Returns(v) == [raised |-> FALSE, value |-> v]
Raises == [raised |-> TRUE, value |-> ""]

\* urljoin(base, href) for an http(s) base and a reference of one of the forms
\* "//host/path" (scheme-relative), "/path" (absolute path) or "path" (relative
\* path, no dot segments).  urlsplit raises ValueError("Invalid IPv6 URL") when
\* the reference's host has one square bracket without the other.
urljoin(base, href) ==
    LET schemeEnd == Find(base, "://", 1)
        scheme == SubSeq(base, 1, schemeEnd - 1)
        query == Find(base, "?", schemeEnd + 3)
        pathEnd == IF query # 0 THEN query - 1 ELSE Len(base)
        slash == Find(SubSeq(base, 1, pathEnd), "/", schemeEnd + 3)
        origin == IF slash # 0 THEN SubSeq(base, 1, slash - 1) ELSE SubSeq(base, 1, pathEnd)
        path == IF slash # 0 THEN SubSeq(base, slash, pathEnd) ELSE ""
        dir == IF path = "" THEN "/" ELSE SubSeq(path, 1, FindLast(path, "/"))
    IN  IF StartsWith(href, "//")
        THEN LET hostEnd == Find(href, "/", 3)
                 netloc == IF hostEnd # 0 THEN SubSeq(href, 3, hostEnd - 1) ELSE SubSeq(href, 3, Len(href))
             IN  IF Contains("[", netloc) # Contains("]", netloc)
                 THEN Raises
                 ELSE Returns(scheme \o ":" \o href)
        ELSE IF StartsWith(href, "/") THEN Returns(origin \o href)
        ELSE Returns(origin \o dir \o href)

\* normalize_url(base, href); href is None when the element has no href attribute
normalize_url(base, href) ==
    IF href = None \/ href = Str("") THEN Returns("")
    ELSE IF StartsWith(href[1], "http") THEN Returns(href[1])
    ELSE urljoin(base, href[1])

\* normalize_url of the daily revision: its two urljoin branches are the same call
normalize_url_daily(base, href) ==
    IF href = None \/ href = Str("") THEN Returns("")
    ELSE IF StartsWith(href[1], "http") THEN Returns(href[1])
    ELSE IF StartsWith(href[1], "/") THEN urljoin(base, href[1])
    ELSE urljoin(base, href[1])

(***************************************************************************)
(* Title keywords and skills (pro)                                         *)
(***************************************************************************)
WordAt(t, i) == i >= 1 /\ i <= Len(t) /\ IsWordChar(Char(t, i))
\* regex \b between positions i and i+1 of t (i in 0..Len(t))
Boundary(t, i) == WordAt(t, i) # WordAt(t, i + 1)

\* \b<w>\b matches t at position i
WordMatchAt(t, i, w) ==
    /\ Slice(t, i, i + Len(w) - 1) = w
    /\ Boundary(t, i - 1)
    /\ Boundary(t, i + Len(w) - 1)

\* \b<w1>\s*<w2>\b matches t at position i
TwoWordMatchAt(t, i, w1, w2) ==
    /\ Slice(t, i, i + Len(w1) - 1) = w1
    /\ Boundary(t, i - 1)
    /\ LET e == SpaceRunEnd(t, i + Len(w1) - 1)
       IN  /\ Slice(t, e + 1, e + Len(w2)) = w2
           /\ Boundary(t, e + Len(w2))

WordSearch(t, w) == \E i \in 1..Len(t) : WordMatchAt(t, i, w)
TwoWordSearch(t, w1, w2) == \E i \in 1..Len(t) : TwoWordMatchAt(t, i, w1, w2)

\* has_title_keyword(text): any of TITLE_KEYWORDS matches the lower-cased text
has_title_keyword(text) ==
    LET t == lower(text)
    IN  \/ TwoWordSearch(t, "data", "analyst")
        \/ TwoWordSearch(t, "data", "science")
        \/ WordSearch(t, "analytic") \/ WordSearch(t, "analytics")
        \/ TwoWordSearch(t, "graduate", "trainee")
        \/ WordSearch(t, "intern") \/ WordSearch(t, "internship")

SKILL_KEYWORDS ==
    <<"SQL", "Excel", "Python", "Power BI", "Tableau", "R",
      "ETL", "Machine Learning", "ML", "Visualization", "Pandas",
      "NumPy", "DAX", "Looker", "DBT", "Airflow">>
LoweredSkills == [i \in 1..Len(SKILL_KEYWORDS) |-> lower(SKILL_KEYWORDS[i])]

Take(s, n) == IF Len(s) <= n THEN s ELSE SubSeq(s, 1, n)

\* find_skills(text): the skills found, in SKILL_KEYWORDS order, at most six
find_skills(text) ==
    LET low == lower(text)
        hit == {i \in 1..Len(SKILL_KEYWORDS) : WordSearch(low, LoweredSkills[i])}
        idx == SelectSeq([i \in 1..Len(SKILL_KEYWORDS) |-> i], LAMBDA i : i \in hit)
    IN  Take([n \in 1..Len(idx) |-> SKILL_KEYWORDS[idx[n]]], 6)

(***************************************************************************)
(* Source adapters.  A page is what the site answers: the fetch fails, or  *)
(* it yields the cards the selector finds.  A card holds the texts of the  *)
(* elements the adapters read; None where the element (or attribute) is    *)
(* missing.  The placeholder company (an em dash in the code) is "-".      *)
(***************************************************************************)
NoCompany == "-"

Skip == [raised |-> FALSE, keep |-> FALSE, job |-> <<>>]
Raise == [raised |-> TRUE, keep |-> FALSE, job |-> <<>>]
Keep(j) == [raised |-> FALSE, keep |-> TRUE, job |-> j]

\* variant: a step that raises empties the list
LoopResult_discard_on_raise(steps) ==
    LET kept == SelectSeq(steps, LAMBDA st : st.keep)
    IN  IF \E i \in 1..Len(steps) : steps[i].raised THEN <<>>
        ELSE [i \in 1..Len(kept) |-> kept[i].job]

\* what the try block leaves in the list when the loop's steps are as given:
\* the records appended before the first step that raises
LoopResult(steps) ==
    LET bad == {i \in 1..Len(steps) : steps[i].raised}
        stop == IF bad = {} THEN Len(steps) + 1 ELSE SetMin(bad)
        kept == SelectSeq(SubSeq(steps, 1, stop - 1), LAMBDA st : st.keep)
    IN  [i \in 1..Len(kept) |-> kept[i].job]

\* one iteration of the four anchor scrapers of the pro revision
AnchorStep(base, source, card) ==
    LET title == clean(card.text)
    IN  IF ~has_title_keyword(title) THEN Skip
        ELSE LET link == normalize_url(base, card.href)
             IN  IF link.raised THEN Raise
                 ELSE Keep([title |-> title, company |-> NoCompany, location |-> "Nigeria",
                            date |-> "", source |-> source, link |-> link.value, desc |-> ""])

\* one iteration of the two Indeed scrapers of the pro revision
IndeedStep(base, source, defaultLoc, card) ==
    LET title == clean(card.text)
    IN  IF ~has_title_keyword(title) THEN Skip
        ELSE LET link == normalize_url(base, card.href)
             IN  IF link.raised THEN Raise
                 ELSE Keep([title |-> title,
                            company |-> clean(IF card.company = None THEN Str(NoCompany) ELSE card.company),
                            location |-> clean(IF card.location = None THEN Str(defaultLoc) ELSE card.location),
                            date |-> clean(card.date),
                            source |-> source, link |-> link.value, desc |-> ""])

\* a scraper call: nothing when the fetch raises, else what the loop leaves
Scraped(page, steps) == IF ~page.fetched THEN <<>> ELSE LoopResult(steps)

\* the loop bodies of the six scrapers of the pro revision
MyJobMagStep(card) == AnchorStep("https://www.myjobmag.com/search/jobs?q=Data+Analyst", "MyJobMag", card)
JobbermanStep(card) == AnchorStep("https://www.jobberman.com", "Jobberman", card)
JobzillaStep(card) == AnchorStep("https://www.jobzilla.ng/jobs/data-analyst", "Jobzilla", card)
HotNigerianJobsStep(card) == AnchorStep("https://www.hotnigerianjobs.com", "HotNigerianJobs", card)
IndeedNigeriaStep(card) == IndeedStep("https://ng.indeed.com", "Indeed (NG)", "Nigeria", card)
IndeedGlobalRemoteStep(card) == IndeedStep("https://www.indeed.com", "Indeed (Remote)", "Remote", card)

scrape_myjobmag(page) == Scraped(page, [i \in 1..Len(page.cards) |-> MyJobMagStep(page.cards[i])])
scrape_jobberman(page) == Scraped(page, [i \in 1..Len(page.cards) |-> JobbermanStep(page.cards[i])])
scrape_jobzilla(page) == Scraped(page, [i \in 1..Len(page.cards) |-> JobzillaStep(page.cards[i])])
scrape_hotnigerianjobs(page) == Scraped(page, [i \in 1..Len(page.cards) |-> HotNigerianJobsStep(page.cards[i])])
scrape_indeed_nigeria(page) == Scraped(page, [i \in 1..Len(page.cards) |-> IndeedNigeriaStep(page.cards[i])])
scrape_indeed_global_remote(page) == Scraped(page, [i \in 1..Len(page.cards) |-> IndeedGlobalRemoteStep(page.cards[i])])

OrDefault(s, d) == IF s = "" THEN d ELSE s

\* one iteration of scrape_myjobmag (daily): the link is resolved before the title test
MyJobMagStep_daily(card) ==
    LET title == IF card.text = None THEN "" ELSE clean_space(card.text)
        link == normalize_url_daily("https://www.myjobmag.com/search/jobs?q=Data+Analyst",
                                    IF card.text = None THEN Str("") ELSE card.href)
        comp == clean_space(card.company)
        loc == clean_space(card.location)
        date_text == clean_space(card.date)
    IN  IF link.raised THEN Raise
        ELSE IF title # "" /\ Contains("analyst", lower(title))
        THEN Keep([title |-> title, company |-> OrDefault(comp, NoCompany),
                   location |-> OrDefault(loc, "Nigeria"), date |-> date_text,
                   source |-> "MyJobMag", link |-> link.value])
        ELSE Skip

\* one iteration of scrape_indeed (daily)
IndeedStep_daily(card) ==
    LET title == clean_space(card.text)
        link == normalize_url_daily("https://ng.indeed.com", card.href)
        comp == clean_space(card.company)
        loc == clean_space(IF card.location = None THEN Str("Nigeria") ELSE card.location)
        date_text == clean_space(card.date)
    IN  IF link.raised THEN Raise
        ELSE IF Contains("analyst", lower(title))
        THEN Keep([title |-> title, company |-> OrDefault(comp, NoCompany), location |-> loc,
                   date |-> date_text, source |-> "Indeed", link |-> link.value])
        ELSE Skip

\* one iteration of scrape_jobberman (daily): every anchor is kept
JobbermanStep_daily(card) ==
    LET title == clean_space(card.text)
        link == normalize_url_daily("https://www.jobberman.com", card.href)
    IN  IF link.raised THEN Raise
        ELSE Keep([title |-> title, company |-> NoCompany, location |-> "Nigeria",
                   date |-> "", source |-> "Jobberman", link |-> link.value])

scrape_myjobmag_daily(page) == Scraped(page, [i \in 1..Len(page.cards) |-> MyJobMagStep_daily(page.cards[i])])
scrape_indeed(page) == Scraped(page, [i \in 1..Len(page.cards) |-> IndeedStep_daily(page.cards[i])])
scrape_jobberman_daily(page) == Scraped(page, [i \in 1..Len(page.cards) |-> JobbermanStep_daily(page.cards[i])])

(***************************************************************************)
(* Work mode and policy                                                    *)
(***************************************************************************)
\* variant: "hybrid" is not among the keywords
worktype_from_text_no_hybrid(title, location) ==
    LET t == lower(title \o " " \o location)
    IN  IF \E k \in {"remote", "work from home", "anywhere"} : Contains(k, t)
        THEN "Remote" ELSE "Onsite"

worktype_from_text(title, location) ==
    LET t == lower(title \o " " \o location)
    IN  IF \E k \in {"remote", "hybrid", "work from home", "anywhere"} : Contains(k, t)
        THEN "Remote" ELSE "Onsite"

infer_remote_or_onsite(title, location) ==
    LET t == lower(title \o " " \o location)
    IN  IF Contains("remote", t) \/ Contains("hybrid", t) \/ Contains("work from home", t)
        THEN "Remote" ELSE "Onsite"

\* variant: a graduate trainee passes in either mode
passes_policy_trainee_any_mode(role_type, remote_onsite) ==
    IF role_type \in {"Data Analyst", "Intern"} THEN remote_onsite = "Remote"
    ELSE role_type = "Graduate Trainee"

passes_policy(role_type, remote_onsite) ==
    IF role_type \in {"Data Analyst", "Intern"} THEN remote_onsite = "Remote"
    ELSE IF role_type = "Graduate Trainee" THEN remote_onsite = "Onsite"
    ELSE FALSE

(***************************************************************************)
(* Aggregation: collect_jobs (pro) and merge_and_filter (daily)            *)
(***************************************************************************)
MAX_JOBS == 25
MAX_JOBS_daily == 15

RECURSIVE Flatten(_)
Flatten(ls) == IF Len(ls) = 0 THEN <<>> ELSE ls[1] \o Flatten(Tail(ls))

\* variant: the key keeps the title's case
Key_case_sensitive(j) == <<j.title, j.link>>

\* the dedup key of both revisions
Key(j) == <<lower(j.title), j.link>>

\* j.update({...}): the record itself gains the three fields
Updated(j, role, wtype, skills) == [role_type |-> role, worktype |-> wtype, skills |-> skills] @@ j

RECURSIVE CollectLoop_mark_after_filter(_, _, _)
\* variant: a key is recorded only once its record has passed the freshness check
CollectLoop_mark_after_filter(flat, n, day) ==
    IF n = 0 THEN [dup |-> {}, merged |-> <<>>, after |-> <<>>]
    ELSE LET st == CollectLoop_mark_after_filter(flat, n - 1, day)
             j == flat[n]
             key == Key(j)
         IN  IF key \in st.dup \/ ~recency_pass(Str(j.date), day)
             THEN [st EXCEPT !.after = Append(@, j)]
             ELSE LET role == role_from_title(j.title)
                      wtype == worktype_from_text(j.title, j.location)
                      skills == find_skills(j.title \o " " \o j.desc)
                  IN  [dup |-> st.dup \cup {key},
                       merged |-> Append(st.merged, Updated(j, role, wtype, skills)),
                       after |-> Append(st.after, Updated(j, role, wtype, skills))]

RECURSIVE CollectLoop(_, _, _)
\* the double loop of collect_jobs over the first n records of the lists, in order:
\* dup, merged, and the records as the loop leaves them (update mutates in place)
CollectLoop(flat, n, day) ==
    IF n = 0 THEN [dup |-> {}, merged |-> <<>>, after |-> <<>>]
    ELSE LET st == CollectLoop(flat, n - 1, day)
             j == flat[n]
             key == Key(j)
         IN  IF key \in st.dup THEN [st EXCEPT !.after = Append(@, j)]
             ELSE LET role == role_from_title(j.title)
                      wtype == worktype_from_text(j.title, j.location)
                      skills == find_skills(j.title \o " " \o j.desc)
                  IN  IF ~recency_pass(Str(j.date), day)
                      THEN [st EXCEPT !.dup = @ \cup {key}, !.after = Append(@, j)]
                      ELSE [dup |-> st.dup \cup {key},
                            merged |-> Append(st.merged, Updated(j, role, wtype, skills)),
                            after |-> Append(st.after, Updated(j, role, wtype, skills))]

source_priority ==
    ("Indeed (Remote)" :> 0) @@ ("Indeed (NG)" :> 1) @@ ("MyJobMag" :> 2) @@
    ("Jobberman" :> 3) @@ ("Jobzilla" :> 4) @@ ("HotNigerianJobs" :> 5)

\* variant: the source rank is left out of the key
SortKey_no_source(x) == <<IF x.worktype = "Remote" THEN 0 ELSE 1, 0, lower(x.title)>>

\* the sort key of collect_jobs; source_priority.get(source, 9)
SortKey(x) ==
    <<IF x.worktype = "Remote" THEN 0 ELSE 1,
      IF x.source \in DOMAIN source_priority THEN source_priority[x.source] ELSE 9,
      lower(x.title)>>

\* Python's tuple order on sort keys
KeyLess(a, b) ==
    \/ a[1] < b[1]
    \/ a[1] = b[1] /\ a[2] < b[2]
    \/ a[1] = b[1] /\ a[2] = b[2] /\ StrLess(a[3], b[3])

RECURSIVE SortLoop(_, _)
\* list.sort(key=...) of the first n keyed entries: stable, ascending.  Entry n goes
\* after every entry whose key is not greater than its own.
SortLoop(keyed, n) ==
    IF n = 0 THEN <<>>
    ELSE LET sorted == SortLoop(keyed, n - 1)
             x == keyed[n]
             before == Cardinality({i \in 1..Len(sorted) : ~KeyLess(x.key, sorted[i].key)})
         IN  SubSeq(sorted, 1, before) \o <<x>> \o SubSeq(sorted, before + 1, Len(sorted))

SortedJobs(merged) ==
    LET keyed == [i \in 1..Len(merged) |-> [key |-> SortKey(merged[i]), job |-> merged[i]]]
        sorted == SortLoop(keyed, Len(keyed))
    IN  [i \in 1..Len(sorted) |-> sorted[i].job]

RECURSIVE Regroup(_, _)
\* flat cut back into lists of the lengths of ls
Regroup(ls, flat) ==
    IF Len(ls) = 0 THEN <<>>
    ELSE <<SubSeq(flat, 1, Len(ls[1]))>> \o Regroup(Tail(ls), SubSeq(flat, Len(ls[1]) + 1, Len(flat)))

\* collect_jobs(), given what its six scraper calls returned: the returned list and
\* the scraped lists as the call leaves them
collect_jobs(lists, day) ==
    LET flat == Flatten(lists)
        st == CollectLoop(flat, Len(flat), day)
    IN  [result |-> Take(SortedJobs(st.merged), MAX_JOBS), lists |-> Regroup(lists, st.after)]

RECURSIVE MergeLoop_mark_after_filter(_, _, _)
\* variant: a key is recorded only once its record has passed both filters
MergeLoop_mark_after_filter(flat, n, day) ==
    IF n = 0 THEN [seen |-> {}, items |-> <<>>]
    ELSE LET st == MergeLoop_mark_after_filter(flat, n - 1, day)
             j == flat[n]
             key == Key(j)
             role_type == infer_role_type(j.title)
             remote_onsite == infer_remote_or_onsite(j.title, j.location)
         IN  IF \/ key \in st.seen
                \/ ~passes_policy(role_type, remote_onsite)
                \/ ~is_recent(Str(j.date), day)
             THEN st
             ELSE [seen |-> st.seen \cup {key},
                   items |-> Append(st.items,
                       [role_type |-> role_type, remote_onsite |-> remote_onsite] @@ j)]

RECURSIVE MergeLoop(_, _, _)
\* the double loop of merge_and_filter over the first n records: seen and items
MergeLoop(flat, n, day) ==
    IF n = 0 THEN [seen |-> {}, items |-> <<>>]
    ELSE LET st == MergeLoop(flat, n - 1, day)
             j == flat[n]
             key == Key(j)
         IN  IF key \in st.seen THEN st
             ELSE LET role_type == infer_role_type(j.title)
                      remote_onsite == infer_remote_or_onsite(j.title, j.location)
                  IN  IF ~passes_policy(role_type, remote_onsite)
                      THEN [st EXCEPT !.seen = @ \cup {key}]
                      ELSE IF ~is_recent(Str(j.date), day)
                      THEN [st EXCEPT !.seen = @ \cup {key}]
                      ELSE [seen |-> st.seen \cup {key},
                            items |-> Append(st.items,
                                [role_type |-> role_type, remote_onsite |-> remote_onsite] @@ j)]

\* variant: the cut keeps one entry too many
merge_and_filter_off_by_one(lists, day) ==
    LET flat == Flatten(lists)
        st == MergeLoop(flat, Len(flat), day)
    IN  [result |-> Take(st.items, MAX_JOBS_daily + 1), lists |-> lists]

\* merge_and_filter(all_lists): new records are built, the lists are left alone
merge_and_filter(lists, day) ==
    LET flat == Flatten(lists)
        st == MergeLoop(flat, Len(flat), day)
    IN  [result |-> Take(st.items, MAX_JOBS_daily), lists |-> lists]

\* fetch_all_jobs(), given what its three scraper calls returned
fetch_all_jobs(lists, day) ==
    LET all_jobs == Flatten(lists)
    IN  [result |-> merge_and_filter(<<all_jobs>>, day).result, lists |-> lists]

(***************************************************************************)
(* Formatters.  A payload is kept as its parts: the rich payload as the    *)
(* table's rows, the plain payload as the lines joined by blank lines.     *)
(***************************************************************************)
html_email(js) == [empty |-> js = <<>>, rows |-> js]
to_html_email(js) == [empty |-> js = <<>>, rows |-> js]

HeaderLine == [number |-> 0, job |-> <<>>]
EntryLine(i, j) == [number |-> i, job |-> j]
Lines(js) == <<HeaderLine>> \o [i \in 1..Len(js) |-> EntryLine(i, js[i])]

\* text_broadcast(jobs): the header and the entries, cut to fifteen lines
text_broadcast(js) == IF js = <<>> THEN <<>> ELSE Take(Lines(js), 15)
\* to_text_for_messaging(jobs): the header and every entry
to_text_for_messaging(js) == IF js = <<>> THEN <<>> ELSE Lines(js)

(***************************************************************************)
(* Senders.  What a sink meets is drawn by the environment: its settings   *)
(* are missing, building the request fails, sending fails, or all is well. *)
(* A call ends "skipped", "delivered", "caught" (logged) or "raised".      *)
(***************************************************************************)
\* send_email_sendgrid (pro): the imports and Mail(...) precede the try block
send_email_sendgrid(outcome) ==
    CASE outcome = "unconfigured" -> "skipped"
      [] outcome = "construct_fail" -> "raised"
      [] outcome = "send_fail" -> "caught"
      [] outcome = "success" -> "delivered"

\* send_telegram (pro): the request is made inside the try block
send_telegram(outcome) ==
    CASE outcome = "unconfigured" -> "skipped"
      [] outcome = "send_fail" -> "caught"
      [] outcome = "success" -> "delivered"

\* send_whatsapp (pro): import, Client(...) and create(...) are inside the try block
send_whatsapp(outcome) ==
    CASE outcome = "unconfigured" -> "skipped"
      [] outcome = "construct_fail" -> "caught"
      [] outcome = "send_fail" -> "caught"
      [] outcome = "success" -> "delivered"

\* the daily revision's senders have no try block at all
send_email_sendgrid_daily(outcome) ==
    CASE outcome = "unconfigured" -> "skipped"
      [] outcome = "construct_fail" -> "raised"
      [] outcome = "send_fail" -> "raised"
      [] outcome = "success" -> "delivered"

send_telegram_daily(outcome) ==
    CASE outcome = "unconfigured" -> "skipped"
      [] outcome = "send_fail" -> "raised"
      [] outcome = "success" -> "delivered"

send_whatsapp_daily(outcome) ==
    CASE outcome = "unconfigured" -> "skipped"
      [] outcome = "construct_fail" -> "raised"
      [] outcome = "send_fail" -> "raised"
      [] outcome = "success" -> "delivered"

(***************************************************************************)
(* A run of main()                                                         *)
(***************************************************************************)
Progs == {"pro", "daily"}

MaxRaw == 2         \* cards over all pages of a run of the aggregation
MainCards == 1      \* cards over all pages of a full run of main()
BulkRaw == 0        \* cards beside the long page
BulkOver == 1       \* how far the long page exceeds MAX_JOBS

Card(t, h, c, l, d) == [text |-> t, href |-> h, company |-> c, location |-> l, date |-> d]
Cards ==
    { Card(Str("Data Analyst"), Str("https://x/1"), Str("Acme"), Str("Remote"), Str("2 days ago")),
      Card(Str(" DATA\n Analyst "), Str("https://x/1"), None, Str("Lagos"), Str("12 days ago")),
      Card(Str("Graduate Trainee Analyst"), Str("/job/3"), None, Str("Remote"), None),
      Card(Str("Remote Analytics Intern"), Str("job/4"), Str(""), Str(""), Str("Today")),
      Card(Str("Hybrid Data Analyst"), None, None, None, Str("30+ days ago")),
      Card(None, Str("/job/7"), None, None, None),
      Card(Str("Remote Data Analyst"), Str("//[bad"), None, None, None) }

CardSeqs(n) == UNION {[1..k -> Cards] : k \in 0..n}

\* the long page: n distinct remote analyst postings
BulkCards(n) ==
    [i \in 1..n |-> Card(Str("Remote Data Analyst " \o ToStr(i)), Str("/job/b" \o ToStr(i)),
                         None, Str("Remote"), None)]

FailedPage == [fetched |-> FALSE, cards |-> <<>>]
\* what the site of the next adapter may answer
Pages ==
    {FailedPage} \cup
    { [fetched |-> TRUE, cards |-> cs \o BulkCards(IF Len(all_lists) = 0 THEN bulk ELSE 0)] :
        cs \in CardSeqs(budget) }

NumAdapters(p) == IF p = "pro" THEN 6 ELSE 3

\* the k-th scraper call of collect_jobs (pro) or fetch_all_jobs (daily)
Adapter(p, k, page) ==
    CASE p = "pro" /\ k = 1 -> scrape_myjobmag(page)
      [] p = "pro" /\ k = 2 -> scrape_jobberman(page)
      [] p = "pro" /\ k = 3 -> scrape_jobzilla(page)
      [] p = "pro" /\ k = 4 -> scrape_hotnigerianjobs(page)
      [] p = "pro" /\ k = 5 -> scrape_indeed_nigeria(page)
      [] p = "pro" /\ k = 6 -> scrape_indeed_global_remote(page)
      [] p = "daily" /\ k = 1 -> scrape_myjobmag_daily(page)
      [] p = "daily" /\ k = 2 -> scrape_indeed(page)
      [] p = "daily" /\ k = 3 -> scrape_jobberman_daily(page)

\* the loop body of that scraper
AdapterStep(p, k, card) ==
    CASE p = "pro" /\ k = 1 -> MyJobMagStep(card)
      [] p = "pro" /\ k = 2 -> JobbermanStep(card)
      [] p = "pro" /\ k = 3 -> JobzillaStep(card)
      [] p = "pro" /\ k = 4 -> HotNigerianJobsStep(card)
      [] p = "pro" /\ k = 5 -> IndeedNigeriaStep(card)
      [] p = "pro" /\ k = 6 -> IndeedGlobalRemoteStep(card)
      [] p = "daily" /\ k = 1 -> MyJobMagStep_daily(card)
      [] p = "daily" /\ k = 2 -> IndeedStep_daily(card)
      [] p = "daily" /\ k = 3 -> JobbermanStep_daily(card)

IdleSinks == [email |-> "idle", telegram |-> "idle", whatsapp |-> "idle"]
NoArgs == [title |-> "", date_text |-> None, today |-> 0]
RunDay == Ordinal(2024, 3, 5)

InitRun(b, blk) ==
    /\ pc = "scrape" /\ fn = "main" /\ args = NoArgs /\ ret = None
    /\ now_day = RunDay
    /\ budget = b /\ bulk = blk
    /\ all_lists = <<>> /\ jobs = <<>>
    /\ html_body = None /\ text_body = None
    /\ sinks = IdleSinks
    /\ reported = None

Scrape ==
    /\ pc = "scrape"
    /\ \E page \in Pages :
        /\ all_lists' = Append(all_lists, Adapter(prog, Len(all_lists) + 1, page))
        /\ budget' = budget - (Len(page.cards) - (IF Len(all_lists) = 0 /\ page.fetched THEN bulk ELSE 0))
    /\ pc' = IF Len(all_lists) + 1 = NumAdapters(prog) THEN "merge" ELSE "scrape"
    /\ UNCHANGED <<prog, fn, args, ret, now_day, bulk, jobs, html_body, text_body, sinks, reported>>

\* the rest of collect_jobs() / fetch_all_jobs() once the scrapers have returned
Aggregate ==
    /\ pc = "merge"
    /\ LET r == IF prog = "pro" THEN collect_jobs(all_lists, now_day)
                ELSE fetch_all_jobs(all_lists, now_day)
       IN  /\ jobs' = r.result
           /\ all_lists' = r.lists
    /\ pc' = "format"
    /\ UNCHANGED <<prog, fn, args, ret, now_day, budget, bulk, html_body, text_body, sinks, reported>>

Format ==
    /\ pc = "format"
    /\ html_body' = IF prog = "pro" THEN html_email(jobs) ELSE to_html_email(jobs)
    /\ text_body' = IF prog = "pro" THEN text_broadcast(jobs) ELSE to_text_for_messaging(jobs)
    /\ pc' = "email"
    /\ UNCHANGED <<prog, fn, args, ret, now_day, budget, bulk, all_lists, jobs, sinks, reported>>

\* an exception that leaves a sender leaves main() too: the process ends
AfterSink(status, next) == IF status = "raised" THEN "crashed" ELSE next

SendEmail ==
    /\ pc = "email"
    /\ \E o \in {"unconfigured", "construct_fail", "send_fail", "success"} :
        LET st == IF prog = "pro" THEN send_email_sendgrid(o) ELSE send_email_sendgrid_daily(o)
        IN  /\ sinks' = [sinks EXCEPT !.email = st]
            /\ pc' = AfterSink(st, "telegram")
    /\ UNCHANGED <<prog, fn, args, ret, now_day, budget, bulk, all_lists, jobs, html_body, text_body, reported>>

SendTelegram ==
    /\ pc = "telegram"
    /\ \E o \in {"unconfigured", "send_fail", "success"} :
        LET st == IF prog = "pro" THEN send_telegram(o) ELSE send_telegram_daily(o)
        IN  /\ sinks' = [sinks EXCEPT !.telegram = st]
            /\ pc' = AfterSink(st, "whatsapp")
    /\ UNCHANGED <<prog, fn, args, ret, now_day, budget, bulk, all_lists, jobs, html_body, text_body, reported>>

SendWhatsapp ==
    /\ pc = "whatsapp"
    /\ \E o \in {"unconfigured", "construct_fail", "send_fail", "success"} :
        LET st == IF prog = "pro" THEN send_whatsapp(o) ELSE send_whatsapp_daily(o)
        IN  /\ sinks' = [sinks EXCEPT !.whatsapp = st]
            /\ pc' = AfterSink(st, "report")
    /\ UNCHANGED <<prog, fn, args, ret, now_day, budget, bulk, all_lists, jobs, html_body, text_body, reported>>

\* the final print of main(): the count of postings
Report ==
    /\ pc = "report"
    /\ reported' = Str(Len(jobs))
    /\ pc' = "done"
    /\ UNCHANGED <<prog, fn, args, ret, now_day, budget, bulk, all_lists, jobs, html_body, text_body, sinks>>

\* a full run of main() on short pages
Init == prog \in Progs /\ InitRun(MainCards, 0)
Next == Scrape \/ Aggregate \/ Format \/ SendEmail \/ SendTelegram \/ SendWhatsapp \/ Report
Spec == Init /\ [][Next]_vars

\* the aggregation alone, on longer inputs: either a few cards, or the long page of
\* the first site and fewer cards
BulkSizes(p) ==
    IF p = "pro" THEN {MAX_JOBS - 1, MAX_JOBS + BulkOver}
    ELSE {MAX_JOBS_daily - 1, MAX_JOBS_daily + BulkOver}
InitAgg ==
    /\ prog \in Progs
    /\ \/ InitRun(MaxRaw, 0)
       \/ \E n \in BulkSizes(prog) : InitRun(BulkRaw, n)
NextAgg == Scrape \/ Aggregate \/ Format
SpecAgg == InitAgg /\ [][NextAgg]_vars

(***************************************************************************)
(* Single calls of the pure functions, on inputs drawn from bounded sets   *)
(***************************************************************************)
RECURSIVE Join(_)
\* " ".join(words)
Join(ws) == IF Len(ws) = 0 THEN "" ELSE IF Len(ws) = 1 THEN ws[1] ELSE ws[1] \o " " \o Join(Tail(ws))

MaxTitleWords == 3
TitleWords == {"Data", "Analyst", "ANALYTICS", "Science", "Intern", "Graduate", "Trainee", "Engineer"}
WordSeqs(n) == UNION {[1..k -> TitleWords] : k \in 1..n}
Titles == {Join(ws) : ws \in WordSeqs(MaxTitleWords)}

AgePrefixes == {"", "Posted "}
AgeNumbers == {"0", "1", "7", "8", "30"}
AgeSeparators == {" ", "  ", "", "+ "}
AgeUnits == {"day ago", "days ago", "Days Ago", "d", "weeks ago"}
AgeTexts == {p \o n \o sp \o u : p \in AgePrefixes, n \in AgeNumbers, sp \in AgeSeparators, u \in AgeUnits}
OtherDateTexts ==
    {"", "Today", "Just posted", "5 hours ago", "yesterday", "New", "a month ago",
     "2024-03-01", "2024-02-27", "2024-02-20", "2024-03-20", "2023-03-05",
     "2024-02-30", "2024-13-01", "0000-01-01", "2024-3-1", "Posted 2024-03-01",
     "2024-03-01T10:00", "2024/03/01", "Active 3 days ago", "Active 12 days ago",
     "30 days ago - updated today", "12 days ago, just reposted", "2020-01-01 1 hour ago"}
DateTexts == AgeTexts \cup OtherDateTexts
DateArgs == {None} \cup {Str(t) : t \in DateTexts}
\* the day the run happens on
Todays == {Ordinal(2024, 3, 5), Ordinal(2024, 3, 9)}

IdleRun ==
    /\ now_day = 0 /\ budget = 0 /\ bulk = 0
    /\ all_lists = <<>> /\ jobs = <<>>
    /\ html_body = None /\ text_body = None
    /\ sinks = IdleSinks
    /\ reported = None

InitFresh ==
    /\ IdleRun
    /\ prog \in Progs
    /\ pc = "call"
    /\ fn = "freshness"
    /\ \E d \in DateArgs, t \in Todays : args = [NoArgs EXCEPT !.date_text = d, !.today = t]
    /\ ret = None

Call_recency_pass ==
    /\ pc = "call" /\ fn = "freshness" /\ prog = "pro"
    /\ ret' = recency_pass(args.date_text, args.today)
    /\ pc' = "ret"
    /\ UNCHANGED <<prog, fn, args, run>>

Call_is_recent ==
    /\ pc = "call" /\ fn = "freshness" /\ prog = "daily"
    /\ ret' = is_recent(args.date_text, args.today)
    /\ pc' = "ret"
    /\ UNCHANGED <<prog, fn, args, run>>

NextFresh == Call_recency_pass \/ Call_is_recent
SpecFresh == InitFresh /\ [][NextFresh]_vars

InitRole ==
    /\ IdleRun
    /\ prog \in Progs
    /\ pc = "call"
    /\ fn = "role"
    /\ \E t \in Titles : args = [NoArgs EXCEPT !.title = t]
    /\ ret = None

Call_role_from_title ==
    /\ pc = "call" /\ fn = "role" /\ prog = "pro"
    /\ ret' = role_from_title(args.title)
    /\ pc' = "ret"
    /\ UNCHANGED <<prog, fn, args, run>>

Call_infer_role_type ==
    /\ pc = "call" /\ fn = "role" /\ prog = "daily"
    /\ ret' = infer_role_type(args.title)
    /\ pc' = "ret"
    /\ UNCHANGED <<prog, fn, args, run>>

NextRole == Call_role_from_title \/ Call_infer_role_type
SpecRole == InitRole /\ [][NextRole]_vars

MaxPageCards == 2   \* cards on the page a single scraper call meets

\* what the site of a single scraper call may answer
ScrapePages == {FailedPage} \cup {[fetched |-> TRUE, cards |-> cs] : cs \in CardSeqs(MaxPageCards)}

InitScrape ==
    /\ IdleRun
    /\ prog \in Progs
    /\ pc = "call"
    /\ fn = "scrape"
    /\ \E k \in 1..NumAdapters(prog), page \in ScrapePages : args = [adapter |-> k, page |-> page]
    /\ ret = None

\* one call of a scraper: it returns its list, whatever happened inside
Call_scrape ==
    /\ pc = "call" /\ fn = "scrape"
    /\ ret' = Adapter(prog, args.adapter, args.page)
    /\ pc' = "ret"
    /\ UNCHANGED <<prog, fn, args, run>>

NextScrape == Call_scrape
SpecScrape == InitScrape /\ [][NextScrape]_vars

MaxModeWords == 2   \* words in the title of a single work-mode call
ModeWords == {"Data", "Analyst", "Intern", "Trainee", "REMOTE", "Hybrid", "Work", "From", "Anywhere"}
ModeTitles == {Join(ws) : ws \in UNION {[1..k -> ModeWords] : k \in 1..MaxModeWords}}
ModeLocations == {"", "Lagos", "Home", "Remote", "Anywhere in EU", "Work from home"}

InitMode ==
    /\ IdleRun
    /\ prog \in Progs
    /\ pc = "call"
    /\ fn = "mode"
    /\ \E t \in ModeTitles, l \in ModeLocations : args = [title |-> t, location |-> l]
    /\ ret = None

Call_worktype_from_text ==
    /\ pc = "call" /\ fn = "mode" /\ prog = "pro"
    /\ ret' = worktype_from_text(args.title, args.location)
    /\ pc' = "ret"
    /\ UNCHANGED <<prog, fn, args, run>>

Call_infer_remote_or_onsite ==
    /\ pc = "call" /\ fn = "mode" /\ prog = "daily"
    /\ ret' = infer_remote_or_onsite(args.title, args.location)
    /\ pc' = "ret"
    /\ UNCHANGED <<prog, fn, args, run>>

NextMode == Call_worktype_from_text \/ Call_infer_remote_or_onsite
SpecMode == InitMode /\ [][NextMode]_vars

(***************************************************************************)
(* Claims                                                                  *)
(***************************************************************************)
Returned(f) == pc = "ret" /\ fn = f

HasFreshWord(s) == Contains("today", s) \/ Contains("just", s) \/ Contains("hour", s)
StatesAgeInDays(s) == UnitSearch(s, "day") # None
IsCalendarDate(s) == ~fromisoformat(Slice(s, 1, 10)).raised
\* a freshness text of none of the recognised forms
UnknownForm(d) ==
    LET s == lower(OrEmpty(d))
    IN  ~HasFreshWord(s) /\ ~StatesAgeInDays(s) /\ ~IsCalendarDate(s)

\* C9: the freshness check passes every freshness text that is empty, absent (None)
\* or of none of the recognised forms (a fresh word, an age in days, a calendar date)
C9_UnknownFreshnessPasses ==
    (Returned("freshness") /\ (args.date_text = None \/ args.date_text = Str("") \/ UnknownForm(args.date_text)))
        => ret = TRUE

\* a non-empty text of no recognised form has been checked
C9_Witness ==
    /\ Returned("freshness")
    /\ args.date_text # None /\ args.date_text # Str("")
    /\ UnknownForm(args.date_text)
    /\ ret = TRUE

IsGraduateTrainee(t) == Contains("graduate", t) /\ Contains("trainee", t)
\* the precedence as the claim states it, on the lower-cased title
ClaimedRole(t) ==
    IF IsGraduateTrainee(t) THEN "Graduate Trainee"
    ELSE IF Contains("intern", t) THEN "Intern"
    ELSE IF Contains("science", t) THEN "Data Science"
    ELSE IF Contains("analyst", t) \/ Contains("analytics", t) THEN "Data Analyst"
    ELSE "Other"

\* C10 as claimed: both role classifiers follow graduate+trainee, intern, science,
\* analyst-or-analytics, Other
C10_ClaimedPrecedence == Returned("role") => ret = ClaimedRole(lower(args.title))

\* C10 as amended: graduate+trainee, then intern, then (role_from_title only) science,
\* then analyst, else Other; "analytics" alone is Other, and infer_role_type never
\* answers Data Science
C10_RolePrecedence ==
    Returned("role") =>
        LET t == lower(args.title)
            gt == IsGraduateTrainee(t)
            intern == Contains("intern", t)
            science == prog = "pro" /\ Contains("science", t)
            analyst == Contains("analyst", t)
        IN  /\ (ret = "Graduate Trainee") = gt
            /\ (ret = "Intern") = (~gt /\ intern)
            /\ (ret = "Data Science") = (~gt /\ ~intern /\ science)
            /\ (ret = "Data Analyst") = (~gt /\ ~intern /\ ~science /\ analyst)
            /\ (ret = "Other") = (~gt /\ ~intern /\ ~science /\ ~analyst)

\* a title with both "analyst" and "intern" has been classified Intern
C10_Witness ==
    /\ Returned("role")
    /\ Contains("analyst", lower(args.title)) /\ Contains("intern", lower(args.title))
    /\ ~IsGraduateTrainee(lower(args.title))
    /\ ret = "Intern"

\* main() has ended: it returned, or an exception left it
RunEnded == fn = "main" /\ pc \in {"done", "crashed"}
SinkNames == {"email", "telegram", "whatsapp"}

\* C6: in a run of main() each of the three sinks is attempted whatever the others
\* meet: a sink's failure is caught inside that sink, and the sinks after it still run
C6_EverySinkAttempted ==
    RunEnded => \A s \in SinkNames : sinks[s] \in {"skipped", "delivered", "caught"}

\* C7: every run of main() reaches its final step, which reports the count of
\* postings; no run ends with an uncaught error before the count is reported
C7_CountReported == RunEnded => (pc = "done" /\ reported = Str(Len(jobs)))

\* the fetch of the scraper call failed
FetchFailed == ~args.page.fetched
\* the cards of the page whose loop iteration raises
RaisingCards ==
    {i \in 1..Len(args.page.cards) : AdapterStep(prog, args.adapter, args.page.cards[i]).raised}
\* the page as far as the loop got: the cards before the first one that raises
PageBeforeFailure ==
    [fetched |-> TRUE, cards |-> SubSeq(args.page.cards, 1, SetMin(RaisingCards) - 1)]

Aggregated == fn = "main" /\ pc = "format"

MaxResults == IF prog = "pro" THEN MAX_JOBS ELSE MAX_JOBS_daily
\* the postings the adapters produced, in adapter iteration order
Pool == Flatten(all_lists)
\* the fields of a posting as its adapter made it
Base(j) ==
    [title |-> j.title, company |-> j.company, location |-> j.location,
     date |-> j.date, source |-> j.source, link |-> j.link]
PostingKey(j) == <<lower(j.title), j.link>>
WorkMode(j) == IF prog = "pro" THEN j.worktype ELSE j.remote_onsite

\* the filters of the running revision, applied to a posting of the pool
PassesFilters(j) ==
    IF prog = "pro" THEN recency_pass(Str(j.date), now_day)
    ELSE /\ passes_policy(infer_role_type(j.title), infer_remote_or_onsite(j.title, j.location))
         /\ is_recent(Str(j.date), now_day)

\* positions of the pool's survivors: first occurrences of their key that pass
SurvivorPositions ==
    LET ks == [i \in 1..Len(Pool) |-> PostingKey(Pool[i])]
    IN  {i \in 1..Len(Pool) : (\A h \in 1..(i - 1) : ks[h] # ks[i]) /\ PassesFilters(Pool[i])}

\* C1: the aggregation output never holds two entries with the same
\* (lower-cased title, link) key
C1_NoDuplicateKeys ==
    Aggregated =>
        LET ks == [i \in 1..Len(jobs) |-> PostingKey(jobs[i])]
        IN  \A i, h \in 1..Len(jobs) : i # h => ks[i] # ks[h]

\* two postings with one key were in the pool and one entry came out
C1_Witness ==
    /\ Aggregated
    /\ \E i, h \in 1..Len(Pool) :
        /\ i < h /\ PostingKey(Pool[i]) = PostingKey(Pool[h])
        /\ \E n \in 1..Len(jobs) : PostingKey(jobs[n]) = PostingKey(Pool[i])

AllowedPair(role, mode) ==
    \/ role \in {"Data Analyst", "Intern", "Data Science"} /\ mode = "Remote"
    \/ role = "Graduate Trainee" /\ mode = "Onsite"

C3_BoundedOutput == Aggregated => Len(jobs) <= MaxResults

\* more postings survived than fit, and exactly MAX_JOBS came out
C3_Witness ==
    /\ Aggregated
    /\ Cardinality(SurvivorPositions) > MaxResults
    /\ Len(jobs) = MaxResults

\* the rank the claim gives a source: its place in the priority table, unlisted last
ClaimedRank(src) ==
    CASE src = "Indeed (Remote)" -> 0 [] src = "Indeed (NG)" -> 1 [] src = "MyJobMag" -> 2
      [] src = "Jobberman" -> 3 [] src = "Jobzilla" -> 4 [] src = "HotNigerianJobs" -> 5
      [] OTHER -> 9
\* posting a ranks strictly before posting b
RanksBefore(a, b) ==
    LET ma == IF a.mode = "Remote" THEN 0 ELSE 1
        mb == IF b.mode = "Remote" THEN 0 ELSE 1
    IN  \/ ma < mb
        \/ ma = mb /\ ClaimedRank(a.source) < ClaimedRank(b.source)
        \/ ma = mb /\ ClaimedRank(a.source) = ClaimedRank(b.source) /\ StrLess(a.title, b.title)
ModeOfPooled(j) ==
    IF prog = "pro" THEN worktype_from_text(j.title, j.location)
    ELSE infer_remote_or_onsite(j.title, j.location)
Ranked(j, mode) == [mode |-> mode, source |-> j.source, title |-> lower(j.title)]

\* the output is the first MaxResults survivors in rank order: survivors only, as many
\* as fit, in ascending rank, and no omitted survivor ranks before an emitted one
RankedCut ==
    LET out == [n \in 1..Len(jobs) |-> Ranked(jobs[n], WorkMode(jobs[n]))]
        surv == SurvivorPositions
        emitted == {i \in surv : \E n \in 1..Len(jobs) : Base(jobs[n]) = Base(Pool[i])}
    IN  /\ \A n \in 1..Len(jobs) : \E i \in surv : Base(jobs[n]) = Base(Pool[i])
        /\ Len(jobs) = (IF Cardinality(surv) <= MaxResults THEN Cardinality(surv) ELSE MaxResults)
        /\ \A n \in 1..(Len(jobs) - 1) : ~RanksBefore(out[n + 1], out[n])
        /\ \A i \in surv \ emitted : \A n \in 1..Len(jobs) :
              ~RanksBefore(Ranked(Pool[i], ModeOfPooled(Pool[i])), out[n])

\* the output is the first MaxResults survivors in adapter iteration order
ArrivalCut ==
    LET surv == SurvivorPositions
        order == SelectSeq([i \in 1..Len(Pool) |-> i], LAMBDA i : i \in surv)
    IN  /\ Len(jobs) = (IF Len(order) <= MaxResults THEN Len(order) ELSE MaxResults)
        /\ \A n \in 1..Len(jobs) : Base(jobs[n]) = Base(Pool[order[n]])

FirstOfRepeated ==
    LET ks == [i \in 1..Len(Pool) |-> PostingKey(Pool[i])]
    IN  {i \in 1..Len(Pool) :
            /\ \A h \in 1..(i - 1) : ks[h] # ks[i]
            /\ \E h \in (i + 1)..Len(Pool) : ks[h] = ks[i]}
EntriesWithKey(k) == {n \in 1..Len(jobs) : PostingKey(jobs[n]) = k}

\* C5 as claimed: a key that occurs twice in the input has exactly one entry in the
\* output, the first occurrence
C5_ClaimedExactlyOne ==
    Aggregated =>
        \A i \in FirstOfRepeated :
            LET es == EntriesWithKey(PostingKey(Pool[i]))
            IN  Cardinality(es) = 1 /\ \A n \in es : Base(jobs[n]) = Base(Pool[i])

\* C5 as amended: such a key has at most one entry, and the entry is the first
\* occurrence; it has one when the first occurrence passes the filters and the
\* survivors fit in MAX_JOBS, and none when the first occurrence is filtered out
C5_AtMostOneFirstWins ==
    Aggregated =>
        \A i \in FirstOfRepeated :
            LET es == EntriesWithKey(PostingKey(Pool[i]))
            IN  /\ Cardinality(es) <= 1
                /\ \A n \in es : Base(jobs[n]) = Base(Pool[i])
                /\ ~PassesFilters(Pool[i]) => es = {}
                /\ (PassesFilters(Pool[i]) /\ Cardinality(SurvivorPositions) <= MaxResults) => es # {}

\* a posting came twice from different sources with different fields, and the first
\* occurrence is the one entry in the output
C5_Witness ==
    /\ Aggregated
    /\ \E i \in FirstOfRepeated : \E h \in (i + 1)..Len(Pool) :
        /\ PostingKey(Pool[h]) = PostingKey(Pool[i])
        /\ Pool[h].source # Pool[i].source
        /\ \E n \in 1..Len(jobs) : Base(jobs[n]) = Base(Pool[i])

(***************************************************************************)
(* Work mode                                                               *)
(***************************************************************************)
\* the lower-cased concatenation of title and location the classifiers inspect
ModeText == lower(args.title \o " " \o args.location)
HasAny(ks, t) == \E k \in ks : Contains(k, t)

\* C11 as claimed: both work-mode classifiers answer Remote exactly when the text holds
\* one of "remote", "hybrid", "work from home", "anywhere", and Onsite otherwise
C11_ClaimedFourKeywords ==
    Returned("mode") =>
        ret = (IF HasAny({"remote", "hybrid", "work from home", "anywhere"}, ModeText)
               THEN "Remote" ELSE "Onsite")

\* C11 as amended: worktype_from_text answers Remote exactly on those four keywords;
\* infer_remote_or_onsite knows only "remote", "hybrid" and "work from home", so a
\* text whose only keyword is "anywhere" is Onsite there; nothing else decides
C11_KeywordsPerRevision ==
    Returned("mode") =>
        LET ks == IF prog = "pro" THEN {"remote", "hybrid", "work from home", "anywhere"}
                  ELSE {"remote", "hybrid", "work from home"}
        IN  /\ ret \in {"Remote", "Onsite"}
            /\ (ret = "Remote") = HasAny(ks, ModeText)

\* a keyword that spans title and location ("... Work From" + "Home") made a posting Remote
C11_Witness ==
    /\ Returned("mode")
    /\ ret = "Remote"
    /\ ~HasAny({"remote", "hybrid", "anywhere"}, ModeText)
    /\ ~Contains("work from home", lower(args.title))
    /\ ~Contains("work from home", lower(args.location))

(***************************************************************************)
(* The freshness rules                                                     *)
(***************************************************************************)
\* the texts that state an age of N days and nothing else, with that N: an optional
\* prefix, the number, white space, "day" or "days" in any case
StatedAges ==
    {<<p \o ToStr(n) \o sp \o u, n>> :
        p \in {"", "Posted ", "Active "}, n \in {0, 1, 3, 7, 8, 12, 30},
        sp \in {" ", "  "}, u \in {"day ago", "days ago", "Days Ago"}}

C13_NoEmptyTitleOrLink ==
    Aggregated => \A n \in 1..Len(jobs) : jobs[n].title # "" /\ jobs[n].link # ""

\* the payloads have just been built
Formatted == fn = "main" /\ pc = "email"
\* the numbered entries of the plain payload, in order
ListedEntries == SelectSeq(text_body, LAMBDA ln : ln.number # 0)

\* C14: for a non-empty list of n postings the plain payload lists the first
\* min(n, 15) postings, in the order given, numbered from 1
C14_FirstFifteenListed ==
    (Formatted /\ jobs # <<>>) =>
        LET n == IF Len(jobs) <= 15 THEN Len(jobs) ELSE 15
        IN  /\ Len(ListedEntries) = n
            /\ \A i \in 1..n : ListedEntries[i] = [number |-> i, job |-> jobs[i]]

\* C15: the aggregation step leaves every record of the adapter-produced lists as
\* it was before the call
C15_InputsUnchanged == [][(fn = "main" /\ pc = "merge") => all_lists' = all_lists]_vars

\* pairs of pool positions with one key: the first occurrence of the key, which a
\* filter rejects, and a later occurrence that alone would pass every filter
ShadowedPairs ==
    {pr \in FirstOfRepeated \X (1..Len(Pool)) :
        LET i == pr[1]
            h == pr[2]
        IN
        /\ i < h /\ PostingKey(Pool[h]) = PostingKey(Pool[i])
        /\ ~PassesFilters(Pool[i]) /\ PassesFilters(Pool[h])}

\* C16: the key is recorded before the filters run, so when the first occurrence of a
\* key is rejected by a filter no later occurrence of the key is in the output, even
\* one that alone would pass every filter
C16_RejectedFirstShadowsLater ==
    Aggregated =>
        \A pr \in ShadowedPairs : EntriesWithKey(PostingKey(Pool[pr[1]])) = {}

\* a stale or off-policy first occurrence has kept a passing later occurrence, with
\* another date or location, out of the output
C16_Witness ==
    /\ Aggregated
    /\ \E pr \in ShadowedPairs :
        /\ Pool[pr[1]].date # Pool[pr[2]].date \/ Pool[pr[1]].location # Pool[pr[2]].location
        /\ EntriesWithKey(PostingKey(Pool[pr[1]])) = {}

=============================================================================
